---- MODULE Spec2Model ----
(***************************************************************************)
(* The job queue of ert: JobQueueNode (res/job_queue/job_queue_node.py),   *)
(* its monitor thread, run() and stop(), together with the parts of the    *)
(* queue the node is driven by (the dispatch pass, the driver and the C    *)
(* node behind _submit / _update_status / _get_submit_attempt).            *)
(*                                                                         *)
(* Threads: one monitor thread per node (pc[n]), the dispatch thread that  *)
(* calls run() (run_pc), and a caller thread that calls stop() (stop_pc).  *)
(* A step is one stretch of code between two points where another thread   *)
(* can observe or change what the stretch reads or writes.                 *)
(***************************************************************************)
EXTENDS Integers, FiniteSets, Sequences, TLC

\* ---------------------------------------------------------------- bounds
NumNodes == 2        \* nodes of a queue in QueueSpec
MaxRunning == 1      \* largest concurrency cap of a queue
PoolSize == 1        \* capacity of the callback limiter (pool_sema)
MaxSubmit == 2       \* largest max_submit
MaxTime == 2         \* the clock runs from 0 to MaxTime
MaxRuntime == 1      \* the configured max_runtime M > 0
MaxKill == 2         \* kill attempts per node

\* None of Python, for _max_runtime, _start_time and _end_time
None == -1

\* ------------------------------------------------------------ vocabulary
\* JobStatusType
JobStatusType ==
    {"WAITING", "SUBMITTED", "PENDING", "RUNNING", "DONE", "EXIT",
     "SUCCESS", "FAILED", "IS_KILLED", "UNKNOWN"}

\* ThreadStatus
ThreadStatus == {"READY", "RUNNING", "STOPPING", "DONE", "FAILED"}

\* what Driver.poll can answer
NormalizedStatus == {"PENDING", "RUNNING", "DONE", "EXIT", "IS_KILLED", "UNKNOWN"}

\* kinds of backend: "any" answers anything at any time, "exit" accepts every
\* submission and reports EXIT, "running" accepts every submission, reports
\* RUNNING for ever and never honours a kill. Two more kinds stand outside
\* this set: "text", whose commands answer in text that the driver parses,
\* and "raw", whose driver does not normalize and can report any queue status
BackendKinds == {"any", "exit", "running"}

\* the kinds of Driver: the local-process driver and the three batch systems
DriverKinds == {"LOCAL", "LSF", "TORQUE", "SLURM"}

\* the batch drivers: drivers.filter(lambda d: d.name != "LOCAL")
BatchKinds == {k \in DriverKinds : k # "LOCAL"}

\* backend-native job ids, as the text the commands print
JobIds == {"17", "42"}

VARIABLES
    job_list,        \* the nodes of the queue
    max_running,     \* the queue's cap on simultaneously submitted jobs
    max_submit,      \* run(..., max_submit)
    max_runtime,     \* JobQueueNode._max_runtime (None, 0 or MaxRuntime)
    backend,         \* backend[n]: kind of backend behind node n's driver
    driver,          \* the kind of the queue's Driver
    status,          \* queue status of the C node (_get_status)
    thread_status,   \* JobQueueNode._thread_status (worker status)
    submit_attempt,  \* _get_submit_attempt()
    has_job,         \* the C node holds a backend job id
    tried_killing,   \* JobQueueNode._tried_killing
    timed_out,       \* JobQueueNode._timed_out
    start_time,      \* JobQueueNode._start_time
    end_time,        \* JobQueueNode._end_time
    mutex,           \* JobQueueNode._mutex: "free", "monitor" or "stop"
    pc,              \* position of node n's monitor thread, "none": not alive
    cur,             \* _job_monitor's local current_status
    callback_status, \* run_done_callback's local callback_status
    pool_sema,       \* slots of pool_sema taken
    run_pc,          \* position of the dispatch thread inside run()
    run_node,        \* the node run() is called on
    stop_pc,         \* position of the caller thread inside stop()
    stop_node,       \* the node stop() is called on
    stop_saw,        \* the branch stop() took: "RUNNING", "READY" or "other"
    now,             \* time.time()
    \* history, read by no step
    n_submit,        \* driver submit calls
    n_kill,          \* driver kill calls
    done_calls,      \* invocations of done_callback_function
    exit_calls,      \* invocations of exit_callback_function
    timeout_calls,   \* invocations of callback_timeout
    stop_called,     \* stop() has been called on the node
    submit_out,   \* the last output of the submission command for the node
    status_out    \* the last output of the status command for the node

vars ==
    <<job_list, max_running, max_submit, max_runtime, backend, status,
      thread_status, submit_attempt, has_job, tried_killing, timed_out,
      start_time, end_time, mutex, pc, cur, callback_status, pool_sema,
      run_pc, run_node, stop_pc, stop_node, stop_saw, now, n_submit, n_kill,
      done_calls, exit_calls, timeout_calls, stop_called, driver,
      submit_out, status_out>>

config == <<job_list, max_running, max_submit, max_runtime, backend, driver>>
history == <<n_submit, n_kill, done_calls, exit_calls, timeout_calls,
             stop_called, submit_out>>

AllNodes == 1..NumNodes

\* ------------------------------------------------------- pure functions

\* is_running with a fault: RUNNING is taken for a finished job
is_running_NoRunning(s) == s \in {"PENDING", "SUBMITTED", "UNKNOWN"}

\* is_running with a fault: UNKNOWN is taken for a finished job
is_running_NoUnknown(s) == s \in {"PENDING", "SUBMITTED", "RUNNING"}

\* is_running with a fault: a job not yet submitted is taken for a running one
is_running_WithWaiting(s) ==
    s \in {"WAITING", "PENDING", "SUBMITTED", "RUNNING", "UNKNOWN"}

\* is_running with a fault: PENDING is taken for a finished job
is_running_NoPending(s) == s \in {"SUBMITTED", "RUNNING", "UNKNOWN"}

\* JobQueueNode.is_running(given_status) for a given status s
is_running(s) == s \in {"PENDING", "SUBMITTED", "RUNNING", "UNKNOWN"}

\* JobQueueNode.is_running() with no status given: given_status or self.status
node_is_running(n) == is_running(status[n])

\* runtime with a fault: without a start time the time since the epoch counts
runtime_SinceEpoch(n) ==
    IF start_time[n] = None THEN now
    ELSE IF end_time[n] = None THEN now - start_time[n]
    ELSE end_time[n] - start_time[n]

\* JobQueueNode.runtime
runtime(n) ==
    IF start_time[n] = None THEN 0
    ELSE IF end_time[n] = None THEN now - start_time[n]
    ELSE end_time[n] - start_time[n]

\* runtime_exceeded with a fault: every kill counts as a timeout
runtime_exceeded_AnyKill(n) == TRUE

\* the second test of the kill policy: self._max_runtime and self.runtime >= ...
runtime_exceeded(n) ==
    max_runtime # None /\ max_runtime # 0 /\ runtime(n) >= max_runtime

\* _should_be_killed with a fault: the maximum runtime is not looked at
should_be_killed_OnlyStop(n) == thread_status[n] = "STOPPING"

\* JobQueueNode._should_be_killed
should_be_killed(n) ==
    \/ thread_status[n] = "STOPPING"
    \/ (max_runtime # None /\ runtime(n) >= max_runtime)

\* node_submit_attempt with a fault: only an accepted submission is counted
node_submit_attempt_OnlyOk(a, ok) == IF ok THEN a + 1 ELSE a

\* the C node's job_queue_node_submit_simple: the new submit_attempt after a
\* submission with outcome ok
node_submit_attempt(a, ok) == a + 1

\* the C node's job_queue_node_submit_simple: the new queue status
node_submit_status(s, ok) == IF ok THEN "SUBMITTED" ELSE s

\* submit_success_output of the tests: what the submission command of a
\* driver prints for an accepted job, as a sequence of words
submit_success_output(driver_name, jobid) ==
    CASE driver_name = "TORQUE" -> <<jobid, ".hostname">>
      [] driver_name = "LSF" ->
            <<"Job", "<", jobid, ">", "is", "submitted", "to", "default",
              "queue", "<normal>.">>
      [] driver_name = "SLURM" -> <<jobid>>
      [] OTHER -> <<>>

\* the outputs a submission command can give: the word "invalid" and the
\* success output of every kind of driver
SubmitOutputs ==
    {<<"invalid">>}
        \cup {submit_success_output(k, j) : k \in DriverKinds, j \in JobIds}

\* parse_job_id with a fault: the SLURM driver takes any single word for a
\* job id
parse_job_id_AnyWord(kind, out) ==
    CASE kind = "TORQUE" ->
            IF Len(out) = 2 /\ out[1] \in JobIds /\ out[2] = ".hostname"
            THEN out[1] ELSE "none"
      [] kind = "LSF" ->
            IF /\ Len(out) >= 4
               /\ out[1] = "Job" /\ out[2] = "<" /\ out[3] \in JobIds
               /\ out[4] = ">"
            THEN out[3] ELSE "none"
      [] kind = "SLURM" -> IF Len(out) = 1 THEN out[1] ELSE "none"
      [] OTHER -> "none"

\* Driver.submit, the parser of the submission command's output: the
\* backend-native job id, or "none" when the output is malformed
parse_job_id(kind, out) ==
    CASE kind = "TORQUE" ->
            IF Len(out) = 2 /\ out[1] \in JobIds /\ out[2] = ".hostname"
            THEN out[1] ELSE "none"
      [] kind = "LSF" ->
            IF /\ Len(out) >= 4
               /\ out[1] = "Job" /\ out[2] = "<" /\ out[3] \in JobIds
               /\ out[4] = ">"
            THEN out[3] ELSE "none"
      [] kind = "SLURM" ->
            IF Len(out) = 1 /\ out[1] \in JobIds THEN out[1] ELSE "none"
      [] OTHER -> "none"

\* Driver.submit: OK when a job id was parsed (the local driver starts a
\* process and parses nothing), DRIVER_FAIL otherwise; it never raises
driver_submit(kind, out) ==
    IF kind = "LOCAL" \/ parse_job_id(kind, out) # "none"
    THEN "OK" ELSE "DRIVER_FAIL"

\* the outputs the submission command of node n's backend can give
SubmitOutputsOf(n) ==
    CASE backend[n] = "text" -> SubmitOutputs
      [] backend[n] \in {"any", "raw"} ->
            {<<"invalid">>, submit_success_output(driver, "17")}
      [] OTHER -> {submit_success_output(driver, "17")}

\* Driver.submit: the outcomes the backend of node n can give
SubmitOutcomes(n) ==
    {driver_submit(driver, out) = "OK" : out \in SubmitOutputsOf(n)}

\* job_status_as_slurm of the tests
job_status_as_slurm(s) ==
    CASE s = "PENDING" -> {"PENDING"}
      [] s = "DONE" -> {"COMPLETED"}
      [] s = "RUNNING" -> {"COMPLETING", "RUNNING", "CONFIGURING"}
      [] s = "EXIT" -> {"FAILED"}
      [] s = "IS_KILLED" -> {"CANCELED"}
      [] OTHER -> {}

\* job_status_as_torque of the tests
job_status_as_torque(s) ==
    CASE s = "PENDING" -> {"job_state = H", "job_state = Q"}
      [] s = "DONE" -> {"job_state = E", "job_state = F", "job_state = C"}
      [] s = "RUNNING" -> {"job_state = R"}
      [] s = "EXIT" -> {"Exit_status = -1"}
      [] OTHER -> {}

\* status_output of the tests: what the status command of a driver prints
\* for a job in status s (the local driver has no status command: the job
\* script has ended with no output)
status_output(driver_name, s) ==
    CASE driver_name = "TORQUE" -> job_status_as_torque(s)
      [] driver_name = "LSF" -> {"DONE"}
      [] driver_name = "SLURM" -> job_status_as_slurm(s)
      [] OTHER -> {""}

\* the outputs a status command can give
StatusOutputs ==
    {"invalid"}
        \cup UNION {status_output(k, s) : k \in DriverKinds,
                                         s \in NormalizedStatus}

\* driver_poll with a fault: the TORQUE driver takes a completed job
\* (job_state = C) for a running one
driver_poll_TorqueC(kind, text) ==
    CASE kind = "SLURM" /\ \E s \in NormalizedStatus :
                              text \in job_status_as_slurm(s) ->
            CHOOSE s \in NormalizedStatus : text \in job_status_as_slurm(s)
      [] kind = "TORQUE" /\ text = "job_state = C" -> "RUNNING"
      [] kind = "TORQUE" /\ text # "job_state = C"
                         /\ \E s \in NormalizedStatus :
                              text \in job_status_as_torque(s) ->
            CHOOSE s \in NormalizedStatus : text \in job_status_as_torque(s)
      [] kind = "LSF" /\ text = "DONE" -> "DONE"
      [] kind = "LOCAL" /\ text = "" -> "DONE"
      [] OTHER -> "UNKNOWN"

\* Driver.poll: the normalized status for the output of the status command;
\* an output that cannot be parsed is UNKNOWN
driver_poll(kind, text) ==
    CASE kind = "SLURM" /\ \E s \in NormalizedStatus :
                              text \in job_status_as_slurm(s) ->
            CHOOSE s \in NormalizedStatus : text \in job_status_as_slurm(s)
      [] kind = "TORQUE" /\ \E s \in NormalizedStatus :
                              text \in job_status_as_torque(s) ->
            CHOOSE s \in NormalizedStatus : text \in job_status_as_torque(s)
      [] kind = "LSF" /\ text = "DONE" -> "DONE"
      [] kind = "LOCAL" /\ text = "" -> "DONE"
      [] OTHER -> "UNKNOWN"

\* Driver.poll: the statuses the backend of node n can report
PollResults(n) ==
    CASE backend[n] = "exit" -> {"EXIT"}
      [] backend[n] = "running" -> {"RUNNING"}
      [] backend[n] = "text" ->
            {driver_poll(driver, text) : text \in StatusOutputs}
      [] backend[n] = "raw" -> JobStatusType
      [] OTHER -> NormalizedStatus

\* Driver.poll of node n answers r: the output of the status command that
\* was parsed is kept for a backend that answers in text
PollReply(n, r) ==
    /\ r \in PollResults(n)
    /\ IF backend[n] = "text"
       THEN \E text \in StatusOutputs :
               /\ r = driver_poll(driver, text)
               /\ status_out' = [status_out EXCEPT ![n] = text]
       ELSE status_out' = status_out

\* the C node's job_queue_node_update_status_simple with poll answer r
node_update_status(n, r) == IF has_job[n] THEN r ELSE status[n]

\* JobQueueNode.update_status with poll answer r: the new queue status
update_status(n, r) ==
    IF status[n] # "WAITING" THEN node_update_status(n, r) ELSE status[n]

\* where the monitor goes after current_status = s: the test of the while loop
LoopTest(s) == IF is_running(s) THEN "iter" ELSE "end"

\* ----------------------------------------------------------------- Init

InitNodes(nodes) ==
    /\ job_list = nodes
    /\ status = [n \in nodes |-> "WAITING"]
    /\ thread_status = [n \in nodes |-> "READY"]
    /\ submit_attempt = [n \in nodes |-> 0]
    /\ has_job = [n \in nodes |-> FALSE]
    /\ tried_killing = [n \in nodes |-> 0]
    /\ timed_out = [n \in nodes |-> FALSE]
    /\ start_time = [n \in nodes |-> None]
    /\ end_time = [n \in nodes |-> None]
    /\ mutex = [n \in nodes |-> "free"]
    /\ pc = [n \in nodes |-> "none"]
    /\ cur = [n \in nodes |-> "WAITING"]
    /\ callback_status = [n \in nodes |-> "none"]
    /\ pool_sema = 0
    /\ run_pc = "idle"
    /\ run_node = 1
    /\ stop_pc = "idle"
    /\ stop_node = 1
    /\ stop_saw = "other"
    /\ now = 0
    /\ n_submit = [n \in nodes |-> 0]
    /\ n_kill = [n \in nodes |-> 0]
    /\ done_calls = [n \in nodes |-> 0]
    /\ exit_calls = [n \in nodes |-> 0]
    /\ timeout_calls = [n \in nodes |-> 0]
    /\ stop_called = [n \in nodes |-> FALSE]
    /\ submit_out = [n \in nodes |-> <<>>]
    /\ status_out = [n \in nodes |-> "none"]

\* one node, every configuration of it
Init ==
    /\ InitNodes({1})
    /\ max_running = 1
    /\ max_submit \in 1..MaxSubmit
    /\ max_runtime \in {None, 0, MaxRuntime}
    /\ backend \in [{1} -> BackendKinds]
    /\ driver = "SLURM"

\* ------------------------------------------------------ the monitor thread

\* _job_monitor, line 170: submit_status = self.submit(driver)
Submit(n, ok) ==
    /\ n \in job_list
    /\ pc[n] = "submit"
    /\ ok \in SubmitOutcomes(n)
    /\ \E out \in SubmitOutputsOf(n) :
          /\ ok = (driver_submit(driver, out) = "OK")
          /\ submit_out' = [submit_out EXCEPT ![n] = out]
    /\ submit_attempt' = [submit_attempt EXCEPT ![n] = node_submit_attempt(@, ok)]
    /\ status' = [status EXCEPT ![n] = node_submit_status(@, ok)]
    /\ has_job' = [has_job EXCEPT ![n] = ok]
    /\ n_submit' = [n_submit EXCEPT ![n] = @ + 1]
    /\ pc' = [pc EXCEPT ![n] = IF ok THEN "poll0" ELSE "submit_failed"]
    /\ UNCHANGED <<config, thread_status, tried_killing, timed_out, start_time,
                   end_time, mutex, cur, pool_sema, run_pc, run_node, stop_pc,
                   stop_node, stop_saw, now, n_kill, done_calls, exit_calls,
                   timeout_calls, stop_called,
                   callback_status,
                   status_out>>

\* _job_monitor, lines 171-172: the submission was not OK
SubmitFailed(n) ==
    /\ n \in job_list
    /\ pc[n] = "submit_failed"
    /\ status' = [status EXCEPT ![n] = "DONE"]
    /\ pc' = [pc EXCEPT ![n] = "poll0"]
    /\ UNCHANGED <<config, thread_status, submit_attempt, has_job, tried_killing,
                   timed_out, start_time, end_time, mutex, cur, pool_sema, run_pc,
                   run_node, stop_pc, stop_node, stop_saw, now, history,
                   callback_status,
                   status_out>>

\* _job_monitor, lines 174-177: the first poll and the first test of the loop
Poll0(n, r) ==
    /\ n \in job_list
    /\ pc[n] = "poll0"
    /\ PollReply(n, r)
    /\ LET s == update_status(n, r) IN
        /\ status' = [status EXCEPT ![n] = s]
        /\ cur' = [cur EXCEPT ![n] = s]
        /\ pc' = [pc EXCEPT ![n] = LoopTest(s)]
    /\ UNCHANGED <<config, thread_status, submit_attempt, has_job, tried_killing,
                   timed_out, start_time, end_time, mutex, pool_sema, run_pc,
                   run_node, stop_pc, stop_node, stop_saw, now, history,
                   callback_status>>

\* _job_monitor, lines 178-183: the top of an iteration, up to the sleep
Iter(n) ==
    /\ n \in job_list
    /\ pc[n] = "iter"
    /\ start_time' = [start_time EXCEPT ![n] =
            IF @ = None /\ cur[n] = "RUNNING" THEN now ELSE @]
    /\ pc' = [pc EXCEPT ![n] = "poll"]
    /\ UNCHANGED <<config, status, thread_status, submit_attempt, has_job,
                   tried_killing, timed_out, end_time, mutex, cur, pool_sema,
                   run_pc, run_node, stop_pc, stop_node, stop_saw, now, history,
                   callback_status,
                   status_out>>

\* _job_monitor, lines 184-185: the poll after the sleep and the test of the
\* kill policy
Poll(n, r) ==
    /\ n \in job_list
    /\ pc[n] = "poll"
    /\ PollReply(n, r)
    /\ status' = [status EXCEPT ![n] = update_status(n, r)]
    /\ pc' = [pc EXCEPT ![n] = IF should_be_killed(n) THEN "kill" ELSE "next"]
    /\ UNCHANGED <<config, thread_status, submit_attempt, has_job, tried_killing,
                   timed_out, start_time, end_time, mutex, cur, pool_sema,
                   run_pc, run_node, stop_pc, stop_node, stop_saw, now, history,
                   callback_status>>

\* the C node's job_queue_node_kill_simple: the queue status after a kill
\* with a fault: the kill itself marks the job as killed
node_kill_status_Killed(s) == "IS_KILLED"

\* the C node's job_queue_node_kill_simple: the queue status after a kill
node_kill_status(s) == s

\* _job_monitor, lines 186-199: _kill and the timeout callback
Kill(n) ==
    /\ n \in job_list
    /\ pc[n] = "kill"
    /\ tried_killing[n] < MaxKill
    /\ status' = [status EXCEPT ![n] = node_kill_status(@)]
    /\ tried_killing' = [tried_killing EXCEPT ![n] = @ + 1]
    /\ n_kill' = [n_kill EXCEPT ![n] = @ + 1]
    /\ IF runtime_exceeded(n)
       THEN /\ timeout_calls' = [timeout_calls EXCEPT ![n] = @ + 1]
            /\ pc' = [pc EXCEPT ![n] = "set_timed_out"]
       ELSE /\ timeout_calls' = timeout_calls
            /\ pc' = [pc EXCEPT ![n] = "next"]
    /\ UNCHANGED <<config, thread_status, submit_attempt, has_job,
                   timed_out, start_time, end_time, mutex, cur, pool_sema,
                   run_pc, run_node, stop_pc, stop_node, stop_saw, now,
                   n_submit, done_calls, exit_calls, stop_called,
                   callback_status,
                   submit_out, status_out>>

\* SetTimedOut with a fault: the mutex is kept after the flag has been set
SetTimedOut_KeepsLock(n) ==
    /\ n \in job_list
    /\ pc[n] = "set_timed_out"
    /\ mutex[n] = "free"
    /\ mutex' = [mutex EXCEPT ![n] = "monitor"]
    /\ timed_out' = [timed_out EXCEPT ![n] = TRUE]
    /\ pc' = [pc EXCEPT ![n] = "next"]
    /\ UNCHANGED <<config, status, thread_status, submit_attempt, has_job,
                   tried_killing, start_time, end_time, cur, pool_sema,
                   run_pc, run_node, stop_pc, stop_node, stop_saw, now, history,
                   callback_status, status_out>>

\* _job_monitor, lines 200-201: the timed-out flag, set under the mutex
SetTimedOut(n) ==
    /\ n \in job_list
    /\ pc[n] = "set_timed_out"
    /\ mutex[n] = "free"
    /\ timed_out' = [timed_out EXCEPT ![n] = TRUE]
    /\ pc' = [pc EXCEPT ![n] = "next"]
    /\ UNCHANGED <<config, status, thread_status, submit_attempt, has_job,
                   tried_killing, start_time, end_time, mutex, cur, pool_sema,
                   run_pc, run_node, stop_pc, stop_node, stop_saw, now, history,
                   callback_status,
                   status_out>>

\* _job_monitor, lines 203 and 177: the end of an iteration, the status is read
\* again and the loop is tested
LoopNext(n) ==
    /\ n \in job_list
    /\ pc[n] = "next"
    /\ cur' = [cur EXCEPT ![n] = status[n]]
    /\ pc' = [pc EXCEPT ![n] = LoopTest(status[n])]
    /\ UNCHANGED <<config, status, thread_status, submit_attempt, has_job,
                   tried_killing, timed_out, start_time, end_time, mutex,
                   pool_sema, run_pc, run_node, stop_pc, stop_node, stop_saw,
                   now, history, callback_status,
                   status_out>>

\* _job_monitor, line 205
EndTime(n) ==
    /\ n \in job_list
    /\ pc[n] = "end"
    /\ end_time' = [end_time EXCEPT ![n] = now]
    /\ pc' = [pc EXCEPT ![n] = "lock"]
    /\ UNCHANGED <<config, status, thread_status, submit_attempt, has_job,
                   tried_killing, timed_out, start_time, mutex, cur, pool_sema,
                   run_pc, run_node, stop_pc, stop_node, stop_saw, now, history,
                   callback_status,
                   status_out>>

\* _job_monitor, lines 207-208: with self._mutex
Lock(n) ==
    /\ n \in job_list
    /\ pc[n] = "lock"
    /\ mutex[n] = "free"
    /\ mutex' = [mutex EXCEPT ![n] = "monitor"]
    /\ pc' = [pc EXCEPT ![n] = IF cur[n] = "DONE" THEN "sema" ELSE "refresh"]
    /\ UNCHANGED <<config, status, thread_status, submit_attempt, has_job,
                   tried_killing, timed_out, start_time, end_time, cur, pool_sema,
                   run_pc, run_node, stop_pc, stop_node, stop_saw, now, history,
                   callback_status,
                   status_out>>

\* _job_monitor, lines 209-210: with pool_sema, and the call of the done callback
Sema(n) ==
    /\ n \in job_list
    /\ pc[n] = "sema"
    /\ pool_sema < PoolSize
    /\ pool_sema' = pool_sema + 1
    /\ done_calls' = [done_calls EXCEPT ![n] = @ + 1]
    /\ pc' = [pc EXCEPT ![n] = "done_cb"]
    /\ UNCHANGED <<config, status, thread_status, submit_attempt, has_job,
                   tried_killing, timed_out, start_time, end_time, mutex, cur,
                   run_pc, run_node, stop_pc, stop_node, stop_saw, now, n_submit,
                   n_kill, exit_calls, timeout_calls, stop_called,
                   callback_status,
                   submit_out, status_out>>

\* DoneCallback with a fault: the slot of the limiter is not released when the
\* callback raises (acquire and release without a with statement)
DoneCallback_Leak(n, out) ==
    /\ n \in job_list
    /\ pc[n] = "done_cb"
    /\ out \in {"true", "false", "ValueError", "raise"}
    /\ IF out = "raise"
       THEN /\ pc' = [pc EXCEPT ![n] = "none"]
            /\ mutex' = [mutex EXCEPT ![n] = "free"]
            /\ UNCHANGED <<pool_sema, callback_status>>
       ELSE /\ pc' = [pc EXCEPT ![n] = "done_set"]
            /\ callback_status' = [callback_status EXCEPT ![n] = out]
            /\ UNCHANGED <<mutex, pool_sema>>
    /\ UNCHANGED <<config, status, thread_status, submit_attempt, has_job,
                   tried_killing, timed_out, start_time, end_time, cur, run_pc,
                   run_node, stop_pc, stop_node, stop_saw, now, history,
                   status_out>>

\* run_done_callback, line 130: the callback returns true or false, or raises;
\* something else than ValueError leaves run_done_callback, `with pool_sema`,
\* `with self._mutex` and the thread
DoneCallback(n, out) ==
    /\ n \in job_list
    /\ pc[n] = "done_cb"
    /\ out \in {"true", "false", "ValueError", "raise"}
    /\ IF out = "raise"
       THEN /\ pc' = [pc EXCEPT ![n] = "none"]
            /\ mutex' = [mutex EXCEPT ![n] = "free"]
            /\ pool_sema' = pool_sema - 1
            /\ callback_status' = callback_status
       ELSE /\ pc' = [pc EXCEPT ![n] = "done_set"]
            /\ callback_status' = [callback_status EXCEPT ![n] = out]
            /\ UNCHANGED <<mutex, pool_sema>>
    /\ UNCHANGED <<config, status, thread_status, submit_attempt, has_job,
                   tried_killing, timed_out, start_time, end_time, cur, run_pc,
                   run_node, stop_pc, stop_node, stop_saw, now, history,
                   status_out>>

\* done_callback_status with a fault: false is handled like a ValueError
done_callback_status_NoExit(cs) == IF cs = "true" THEN "SUCCESS" ELSE "FAILED"

\* done_callback_status with a fault: a ValueError is handled like false
done_callback_status_ErrorIsExit(cs) == IF cs = "true" THEN "SUCCESS" ELSE "EXIT"

\* run_done_callback, lines 131-137: the queue status for callback_status cs
done_callback_status(cs) ==
    CASE cs = "true" -> "SUCCESS"
      [] cs = "false" -> "EXIT"
      [] OTHER -> "FAILED"

\* run_done_callback, lines 131-139, and the end of `with pool_sema`
DoneSet(n) ==
    /\ n \in job_list
    /\ pc[n] = "done_set"
    /\ status' = [status EXCEPT ![n] = done_callback_status(callback_status[n])]
    /\ callback_status' = [callback_status EXCEPT ![n] = "none"]
    /\ pool_sema' = pool_sema - 1
    /\ pc' = [pc EXCEPT ![n] = "refresh"]
    /\ UNCHANGED <<config, thread_status, submit_attempt, has_job, tried_killing,
                   timed_out, start_time, end_time, mutex, cur, run_pc, run_node,
                   stop_pc, stop_node, stop_saw, now, history,
                   status_out>>

\* retry_allowed with a fault: off by one
retry_allowed_OffByOne(n) == submit_attempt[n] <= max_submit

\* _job_monitor, lines 216-219: may an attempt that ended in EXIT be retried
retry_allowed(n) == submit_attempt[n] < max_submit

\* terminal_thread_status with a fault: an unexpected queue status is let
\* through
terminal_thread_status_AlwaysDone(s) == "DONE"

\* _job_monitor, lines 214-233: the worker status the terminal handling ends
\* with for the refreshed queue status s, when the node is not reset for a
\* retry
terminal_thread_status(s) ==
    IF s \in {"SUCCESS", "EXIT", "IS_KILLED", "FAILED"} THEN "DONE" ELSE "FAILED"

\* _job_monitor, lines 212-233: the terminal handling after the callback, up to
\* the call of the exit callback
Refresh(n) ==
    /\ n \in job_list
    /\ pc[n] = "refresh"
    /\ cur' = [cur EXCEPT ![n] = status[n]]
    /\ CASE status[n] \in {"SUCCESS", "IS_KILLED"} ->
              /\ thread_status' = [thread_status EXCEPT ![n] =
                                       terminal_thread_status(status[n])]
              /\ mutex' = [mutex EXCEPT ![n] = "free"]
              /\ pc' = [pc EXCEPT ![n] = "none"]
              /\ UNCHANGED <<status, exit_calls>>
         [] status[n] = "EXIT" /\ retry_allowed(n) ->
              /\ thread_status' = [thread_status EXCEPT ![n] = "READY"]
              /\ pc' = [pc EXCEPT ![n] = "return"]
              /\ UNCHANGED <<status, exit_calls, mutex>>
         [] status[n] = "EXIT" /\ ~retry_allowed(n) ->
              /\ status' = [status EXCEPT ![n] = "FAILED"]
              /\ exit_calls' = [exit_calls EXCEPT ![n] = @ + 1]
              /\ pc' = [pc EXCEPT ![n] = "exit_cb"]
              /\ UNCHANGED <<thread_status, mutex>>
         [] status[n] = "FAILED" ->
              /\ exit_calls' = [exit_calls EXCEPT ![n] = @ + 1]
              /\ pc' = [pc EXCEPT ![n] = "exit_cb"]
              /\ UNCHANGED <<status, thread_status, mutex>>
         [] OTHER ->
              /\ thread_status' = [thread_status EXCEPT ![n] =
                                       terminal_thread_status(status[n])]
              /\ mutex' = [mutex EXCEPT ![n] = "free"]
              /\ pc' = [pc EXCEPT ![n] = "none"]
              /\ UNCHANGED <<status, exit_calls>>
    /\ UNCHANGED <<config, submit_attempt, has_job, tried_killing, timed_out,
                   start_time, end_time, pool_sema, run_pc, run_node, stop_pc,
                   stop_node, stop_saw, now, n_submit, n_kill, done_calls,
                   timeout_calls, stop_called,
                   callback_status,
                   submit_out, status_out>>

\* _job_monitor, line 219: return after the reset to READY; the mutex is
\* released and the thread ends
Return(n) ==
    /\ n \in job_list
    /\ pc[n] = "return"
    /\ mutex' = [mutex EXCEPT ![n] = "free"]
    /\ pc' = [pc EXCEPT ![n] = "none"]
    /\ UNCHANGED <<config, status, thread_status, submit_attempt, has_job,
                   tried_killing, timed_out, start_time, end_time, cur, pool_sema,
                   run_pc, run_node, stop_pc, stop_node, stop_saw, now, history,
                   callback_status,
                   status_out>>

\* ExitCallback with a fault: the monitor returns after the failure callback
\* without setting the worker status DONE
ExitCallback_NoDone(n, raised) ==
    /\ n \in job_list
    /\ pc[n] = "exit_cb"
    /\ raised \in BOOLEAN
    /\ mutex' = [mutex EXCEPT ![n] = "free"]
    /\ pc' = [pc EXCEPT ![n] = "none"]
    /\ UNCHANGED <<config, status, thread_status, submit_attempt, has_job,
                   tried_killing, timed_out, start_time, end_time, cur, pool_sema,
                   run_pc, run_node, stop_pc, stop_node, stop_saw, now, history,
                   callback_status,
                   status_out>>

\* run_exit_callback returning (lines 222, 226) and line 233, or raising
ExitCallback(n, raised) ==
    /\ n \in job_list
    /\ pc[n] = "exit_cb"
    /\ raised \in BOOLEAN
    /\ thread_status' = [thread_status EXCEPT ![n] = IF raised THEN @ ELSE "DONE"]
    /\ mutex' = [mutex EXCEPT ![n] = "free"]
    /\ pc' = [pc EXCEPT ![n] = "none"]
    /\ UNCHANGED <<config, status, submit_attempt, has_job, tried_killing,
                   timed_out, start_time, end_time, cur, pool_sema, run_pc,
                   run_node, stop_pc, stop_node, stop_saw, now, n_submit, n_kill,
                   done_calls, exit_calls, timeout_calls, stop_called,
                   callback_status,
                   submit_out, status_out>>

\* ------------------------------------------------------ the dispatch thread

\* the nodes that hold a slot of the queue: started and not yet terminal
ActiveNodes == {n \in job_list : thread_status[n] \in {"RUNNING", "STOPPING"}}

\* the dispatch pass: the first READY node in submission order is started while
\* the number of active nodes is below the cap
Dispatch(n) ==
    /\ run_pc = "idle"
    /\ n \in job_list
    /\ thread_status[n] = "READY"
    /\ \A m \in job_list : m < n => thread_status[m] # "READY"
    /\ Cardinality(ActiveNodes) < max_running
    /\ run_pc' = "run"
    /\ run_node' = n
    /\ UNCHANGED <<config, status, thread_status, submit_attempt, has_job,
                   tried_killing, timed_out, start_time, end_time, mutex, pc, cur,
                   pool_sema, stop_pc, stop_node, stop_saw, now, history,
                   callback_status,
                   status_out>>

\* RunCheck with a fault: run() does not wait for the previous monitor thread
RunCheck_NoWait ==
    /\ run_pc = "run"
    /\ IF thread_status[run_node] = "STOPPING"
       THEN /\ thread_status' = [thread_status EXCEPT ![run_node] = "DONE"]
            /\ run_pc' = "idle"
       ELSE /\ thread_status' = thread_status
            /\ run_pc' = "start"
    /\ UNCHANGED <<config, status, submit_attempt, has_job, tried_killing,
                   timed_out, start_time, end_time, mutex, pc, cur, pool_sema,
                   run_node, stop_pc, stop_node, stop_saw, now, history,
                   callback_status,
                   status_out>>

\* run, lines 241-245: wait_for() and the test for a stop requested earlier
RunCheck ==
    /\ run_pc = "run"
    /\ pc[run_node] = "none"
    /\ IF thread_status[run_node] = "STOPPING"
       THEN /\ thread_status' = [thread_status EXCEPT ![run_node] = "DONE"]
            /\ run_pc' = "idle"
       ELSE /\ thread_status' = thread_status
            /\ run_pc' = "start"
    /\ UNCHANGED <<config, status, submit_attempt, has_job, tried_killing,
                   timed_out, start_time, end_time, mutex, pc, cur, pool_sema,
                   run_node, stop_pc, stop_node, stop_saw, now, history,
                   callback_status,
                   status_out>>

\* run, lines 247-252: the monitor thread is started
RunStart ==
    /\ run_pc = "start"
    /\ thread_status' = [thread_status EXCEPT ![run_node] = "RUNNING"]
    /\ start_time' = [start_time EXCEPT ![run_node] = None]
    /\ pc' = [pc EXCEPT ![run_node] = "submit"]
    /\ run_pc' = "idle"
    /\ UNCHANGED <<config, status, submit_attempt, has_job, tried_killing,
                   timed_out, end_time, mutex, cur, pool_sema, run_node, stop_pc,
                   stop_node, stop_saw, now, history,
                   callback_status,
                   status_out>>

\* ------------------------------------------------------------------ stop()

\* stop() is called on node n
StopCall(n) ==
    /\ stop_pc = "idle"
    /\ n \in job_list
    /\ stop_pc' = "acquire"
    /\ stop_node' = n
    /\ stop_called' = [stop_called EXCEPT ![n] = TRUE]
    /\ UNCHANGED <<config, status, thread_status, submit_attempt, has_job,
                   tried_killing, timed_out, start_time, end_time, mutex, pc, cur,
                   pool_sema, run_pc, run_node, stop_saw, now, n_submit, n_kill,
                   done_calls, exit_calls, timeout_calls,
                   callback_status,
                   submit_out, status_out>>

\* StopCheckRunning with a fault: a READY node is set STOPPING as well
StopCheckRunning_ReadyToo ==
    /\ stop_pc = "acquire"
    /\ mutex[stop_node] = "free"
    /\ mutex' = [mutex EXCEPT ![stop_node] = "stop"]
    /\ IF thread_status[stop_node] \in {"RUNNING", "READY"}
       THEN /\ thread_status' = [thread_status EXCEPT ![stop_node] = "STOPPING"]
            /\ stop_saw' = "RUNNING"
            /\ stop_pc' = "assert"
       ELSE /\ UNCHANGED <<thread_status, stop_saw>>
            /\ stop_pc' = "check_ready"
    /\ UNCHANGED <<config, status, submit_attempt, has_job, tried_killing,
                   timed_out, start_time, end_time, pc, cur, pool_sema, run_pc,
                   run_node, stop_node, now, history, callback_status,
                   status_out>>

\* stop, lines 255-257: with self._mutex, and the RUNNING branch
StopCheckRunning ==
    /\ stop_pc = "acquire"
    /\ mutex[stop_node] = "free"
    /\ mutex' = [mutex EXCEPT ![stop_node] = "stop"]
    /\ IF thread_status[stop_node] = "RUNNING"
       THEN /\ thread_status' = [thread_status EXCEPT ![stop_node] = "STOPPING"]
            /\ stop_saw' = "RUNNING"
            /\ stop_pc' = "assert"
       ELSE /\ UNCHANGED <<thread_status, stop_saw>>
            /\ stop_pc' = "check_ready"
    /\ UNCHANGED <<config, status, submit_attempt, has_job, tried_killing,
                   timed_out, start_time, end_time, pc, cur, pool_sema, run_pc,
                   run_node, stop_node, now, history,
                   callback_status,
                   status_out>>

\* StopCheckReady with a fault: a finished node is cleaned up like a READY one
StopCheckReady_DoneToo ==
    /\ stop_pc = "check_ready"
    /\ IF thread_status[stop_node] \in {"READY", "DONE"}
       THEN /\ stop_saw' = "READY"
            /\ stop_pc' = "set_done"
       ELSE /\ stop_saw' = stop_saw
            /\ stop_pc' = "assert"
    /\ UNCHANGED <<config, status, thread_status, submit_attempt, has_job,
                   tried_killing, timed_out, start_time, end_time, mutex, pc, cur,
                   pool_sema, run_pc, run_node, stop_node, now, history,
                   callback_status,
                   status_out>>

\* stop, line 258
StopCheckReady ==
    /\ stop_pc = "check_ready"
    /\ IF thread_status[stop_node] = "READY"
       THEN /\ stop_saw' = "READY"
            /\ stop_pc' = "set_done"
       ELSE /\ stop_saw' = stop_saw
            /\ stop_pc' = "assert"
    /\ UNCHANGED <<config, status, thread_status, submit_attempt, has_job,
                   tried_killing, timed_out, start_time, end_time, mutex, pc, cur,
                   pool_sema, run_pc, run_node, stop_node, now, history,
                   callback_status,
                   status_out>>

\* stop, line 260
StopSetDone ==
    /\ stop_pc = "set_done"
    /\ thread_status' = [thread_status EXCEPT ![stop_node] = "DONE"]
    /\ stop_pc' = "set_failed"
    /\ UNCHANGED <<config, status, submit_attempt, has_job, tried_killing,
                   timed_out, start_time, end_time, mutex, pc, cur, pool_sema,
                   run_pc, run_node, stop_node, stop_saw, now, history,
                   callback_status,
                   status_out>>

\* StopSetFailed with a fault: the node is marked killed, not failed
StopSetFailed_Killed ==
    /\ stop_pc = "set_failed"
    /\ status' = [status EXCEPT ![stop_node] = "IS_KILLED"]
    /\ stop_pc' = "assert"
    /\ UNCHANGED <<config, thread_status, submit_attempt, has_job, tried_killing,
                   timed_out, start_time, end_time, mutex, pc, cur, pool_sema,
                   run_pc, run_node, stop_node, stop_saw, now, history,
                   callback_status,
                   status_out>>

\* stop, line 261
StopSetFailed ==
    /\ stop_pc = "set_failed"
    /\ status' = [status EXCEPT ![stop_node] = "FAILED"]
    /\ stop_pc' = "assert"
    /\ UNCHANGED <<config, thread_status, submit_attempt, has_job, tried_killing,
                   timed_out, start_time, end_time, mutex, pc, cur, pool_sema,
                   run_pc, run_node, stop_node, stop_saw, now, history,
                   callback_status,
                   status_out>>

\* the assertion at the end of stop(), lines 263-267
stop_assertion(n) == thread_status[n] \in {"DONE", "STOPPING", "FAILED"}

\* stop, lines 263-267: the assertion is evaluated, the mutex is released and
\* stop() returns, or raises AssertionError when the assertion fails
StopReturn ==
    /\ stop_pc = "assert"
    /\ mutex' = [mutex EXCEPT ![stop_node] = "free"]
    /\ stop_pc' = "idle"
    /\ stop_saw' = "other"
    /\ UNCHANGED <<config, status, thread_status, submit_attempt, has_job,
                   tried_killing, timed_out, start_time, end_time, pc, cur,
                   pool_sema, run_pc, run_node, stop_node, now, history,
                   callback_status,
                   status_out>>

\* ------------------------------------------------------------------- time

\* time.time() advances; time.sleep(1) is a point where it may
Tick ==
    /\ now < MaxTime
    /\ now' = now + 1
    /\ UNCHANGED <<config, status, thread_status, submit_attempt, has_job,
                   tried_killing, timed_out, start_time, end_time, mutex, pc, cur,
                   pool_sema, run_pc, run_node, stop_pc, stop_node, stop_saw,
                   history,
                   callback_status,
                   status_out>>

\* ------------------------------------------------------------------- Next

Monitor(n) ==
    \/ \E ok \in BOOLEAN : Submit(n, ok)
    \/ SubmitFailed(n)
    \/ \E r \in NormalizedStatus : Poll0(n, r)
    \/ Iter(n)
    \/ \E r \in NormalizedStatus : Poll(n, r)
    \/ LoopNext(n)
    \/ Kill(n)
    \/ SetTimedOut(n)
    \/ EndTime(n)
    \/ Lock(n)
    \/ Sema(n)
    \/ \E out \in {"true", "false", "ValueError", "raise"} : DoneCallback(n, out)
    \/ DoneSet(n)
    \/ Refresh(n)
    \/ Return(n)
    \/ \E raised \in BOOLEAN : ExitCallback(n, raised)

Run ==
    \/ \E n \in AllNodes : Dispatch(n)
    \/ RunCheck
    \/ RunStart

Stop ==
    \/ \E n \in AllNodes : StopCall(n)
    \/ StopCheckRunning
    \/ StopCheckReady
    \/ StopSetDone
    \/ StopSetFailed
    \/ StopReturn

Next ==
    \/ \E n \in AllNodes : Monitor(n)
    \/ Run
    \/ Stop
    \/ Tick

Spec == Init /\ [][Next]_vars

\* ------------------------------------------------------------ the queue

\* a queue of NumNodes nodes with a cap of at most MaxRunning, as built by
\* _run_forward_model: no maximum runtime (line 45)
QueueInit ==
    /\ InitNodes(1..NumNodes)
    /\ max_running \in 1..MaxRunning
    /\ max_submit = MaxSubmit
    /\ max_runtime = None
    /\ backend \in [1..NumNodes -> {"any"}]
    /\ driver = "SLURM"

\* the queue has been told to stop: the dispatch loop runs to completion or
\* to an explicit stop
QueueStopped == \E n \in job_list : stop_called[n]

\* a dispatch of the running queue
QueueDispatch(n) == ~QueueStopped /\ Dispatch(n)

\* the monitor of node n when no maximum runtime is set
QueueMonitor(n) ==
    \/ \E ok \in BOOLEAN : Submit(n, ok)
    \/ SubmitFailed(n)
    \/ \E r \in NormalizedStatus : Poll0(n, r)
    \/ Iter(n)
    \/ \E r \in NormalizedStatus : Poll(n, r)
    \/ LoopNext(n)
    \/ Kill(n)
    \/ EndTime(n)
    \/ Lock(n)
    \/ Sema(n)
    \/ \E out \in {"true", "false", "ValueError", "raise"} : DoneCallback(n, out)
    \/ DoneSet(n)
    \/ Refresh(n)
    \/ Return(n)
    \/ \E raised \in BOOLEAN : ExitCallback(n, raised)

QueueRun ==
    \/ \E n \in AllNodes : QueueDispatch(n)
    \/ RunCheck
    \/ RunStart

QueueNext ==
    \/ \E n \in AllNodes : QueueMonitor(n)
    \/ QueueRun
    \/ Stop

QueueSpec == QueueInit /\ [][QueueNext]_vars

\* ------------------------------------------------- the callback limiter

\* a queue whose cap lets every node run at once, so that the monitors of
\* different nodes reach their callbacks together; no stop() and no maximum
\* runtime, hence no kill
PoolInit ==
    /\ InitNodes(1..NumNodes)
    /\ max_running = NumNodes
    /\ max_submit \in 1..MaxSubmit
    /\ max_runtime = None
    /\ backend \in [1..NumNodes -> {"any"}]
    /\ driver = "SLURM"

\* the monitor of node n when it is never told to kill
PoolMonitor(n) ==
    \/ \E ok \in BOOLEAN : Submit(n, ok)
    \/ SubmitFailed(n)
    \/ \E r \in NormalizedStatus : Poll0(n, r)
    \/ Iter(n)
    \/ \E r \in NormalizedStatus : Poll(n, r)
    \/ LoopNext(n)
    \/ EndTime(n)
    \/ Lock(n)
    \/ Sema(n)
    \/ \E out \in {"true", "false", "ValueError", "raise"} : DoneCallback(n, out)
    \/ DoneSet(n)
    \/ Refresh(n)
    \/ Return(n)
    \/ \E raised \in BOOLEAN : ExitCallback(n, raised)

PoolNext ==
    \/ \E n \in AllNodes : PoolMonitor(n)
    \/ Run

PoolSpec == PoolInit /\ [][PoolNext]_vars

\* --------------------------------------------------- stopping the queue

\* JobQueueManager.stop_queue, first half: stop() is called on every node, in
\* submission order
StopQueue(n) ==
    /\ \A m \in job_list : m < n => stop_called[m]
    /\ ~stop_called[n]
    /\ StopCall(n)

\* JobQueueManager.stop_queue, second half: it blocks until the monitor
\* threads of all nodes have finished, and returns
JoinMonitors ==
    /\ stop_pc = "idle"
    /\ \A n \in job_list : stop_called[n] /\ pc[n] = "none"
    /\ stop_pc' = "joined"
    /\ UNCHANGED <<config, status, thread_status, submit_attempt, has_job,
                   tried_killing, timed_out, start_time, end_time, mutex, pc, cur,
                   pool_sema, run_pc, run_node, stop_node, stop_saw, now, history,
                   callback_status,
                   status_out>>

\* the simulation thread: execute_queue returns when the dispatch loop has run
\* to completion or the queue has been told to stop, and the thread ends
SimThreadEnds ==
    /\ run_pc = "idle"
    /\ QueueStopped \/ \A n \in job_list : thread_status[n] \in {"DONE", "FAILED"}
    /\ run_pc' = "finished"
    /\ UNCHANGED <<config, status, thread_status, submit_attempt, has_job,
                   tried_killing, timed_out, start_time, end_time, mutex, pc, cur,
                   pool_sema, run_node, stop_pc, stop_node, stop_saw, now, history,
                   callback_status,
                   status_out>>

\* JoinSimThread with a fault: stop returns without joining the simulation
\* thread
JoinSimThread_NoJoin ==
    /\ stop_pc = "joined"
    /\ stop_pc' = "returned"
    /\ UNCHANGED <<config, status, thread_status, submit_attempt, has_job,
                   tried_killing, timed_out, start_time, end_time, mutex, pc, cur,
                   pool_sema, run_pc, run_node, stop_node, stop_saw, now, history,
                   callback_status,
                   status_out>>

\* SimulationContext.stop, line 221: self._sim_thread.join(), after stop_queue
\* has returned
JoinSimThread ==
    /\ stop_pc = "joined"
    /\ run_pc = "finished"
    /\ stop_pc' = "returned"
    /\ UNCHANGED <<config, status, thread_status, submit_attempt, has_job,
                   tried_killing, timed_out, start_time, end_time, mutex, pc, cur,
                   pool_sema, run_pc, run_node, stop_node, stop_saw, now, history,
                   callback_status,
                   status_out>>

\* SimulationContext.stop and the stop() of each node it leads to
StopContext ==
    \/ \E n \in AllNodes : StopQueue(n)
    \/ StopCheckRunning
    \/ StopCheckReady
    \/ StopSetDone
    \/ StopSetFailed
    \/ StopReturn
    \/ JoinMonitors
    \/ JoinSimThread

ContextNext ==
    \/ \E n \in AllNodes : QueueMonitor(n)
    \/ QueueRun
    \/ SimThreadEnds
    \/ StopContext

\* a simulation context: the queue of QueueInit run by the simulation thread,
\* and a caller of SimulationContext.stop
ContextSpec == QueueInit /\ [][ContextNext]_vars

\* ------------------------------------------------ the queue run to its end

\* poll answers that end the poll loop
FinalStatus == {"DONE", "EXIT", "IS_KILLED"}

\* the monitor of node n when nobody stops the node and its callbacks return
\* (the success callback may still fail with a ValueError)
LiveMonitor(n) ==
    \/ \E ok \in BOOLEAN : Submit(n, ok)
    \/ SubmitFailed(n)
    \/ \E r \in NormalizedStatus : Poll0(n, r)
    \/ Iter(n)
    \/ \E r \in NormalizedStatus : Poll(n, r)
    \/ LoopNext(n)
    \/ EndTime(n)
    \/ Lock(n)
    \/ Sema(n)
    \/ \E out \in {"true", "false", "ValueError"} : DoneCallback(n, out)
    \/ DoneSet(n)
    \/ Refresh(n)
    \/ Return(n)
    \/ ExitCallback(n, FALSE)

LiveNext ==
    \/ \E n \in AllNodes : LiveMonitor(n)
    \/ Run

\* fair scheduling of the monitor threads and of the dispatch thread, and a
\* backend that, polled again and again, sooner or later gives an answer that
\* ends the poll loop
LiveFairness ==
    /\ \A n \in AllNodes : WF_vars(LiveMonitor(n))
    /\ \A n \in AllNodes : SF_vars(\E r \in FinalStatus : Poll(n, r))
    /\ WF_vars(Run)

LiveSpec == QueueInit /\ [][LiveNext]_vars /\ LiveFairness

\* ================================================================ claims

\* positions of the monitor inside the poll loop (lines 177-203)
LoopPcs == {"iter", "poll", "kill", "set_timed_out", "next"}

\* a step of node n's monitor thread: every such step moves pc[n]
MonitorStep(n) == pc'[n] # pc[n] /\ pc[n] # "none"

\* a step that ends node n's monitor thread
MonitorEnds(n) == pc[n] # "none" /\ pc'[n] = "none"

\* ---------------------------------------------------------------- C1
ClaimedWorkerSteps ==
    {<<"READY", "RUNNING">>, <<"RUNNING", "STOPPING">>, <<"STOPPING", "DONE">>,
     <<"RUNNING", "DONE">>, <<"RUNNING", "FAILED">>, <<"RUNNING", "READY">>}

AmendedWorkerSteps ==
    ClaimedWorkerSteps
      \cup {<<"READY", "DONE">>, <<"STOPPING", "READY">>, <<"DONE", "RUNNING">>,
            <<"DONE", "READY">>}

C2_Case(n) == max_submit = 2 /\ backend[n] = "exit" /\ ~stop_called[n]

\* C2: with max_submit = 2 and a backend that always reports EXIT, a node re-run
\* whenever it is READY is submitted exactly twice, then is FAILED with worker
\* status DONE, and its failure callback is invoked exactly once: never more
\* than two submissions or one failure callback, the failure callback only
\* after the second submission, a READY node still has a submission left, and
\* a node whose worker status is DONE is FAILED after two submissions and one
\* failure callback.
C2_AlwaysExit ==
    \A n \in job_list :
      C2_Case(n) =>
        /\ n_submit[n] <= 2
        /\ exit_calls[n] <= 1
        /\ thread_status[n] # "FAILED"
        /\ status[n] # "SUCCESS"
        /\ (exit_calls[n] = 1 => n_submit[n] = 2 /\ status[n] = "FAILED")
        /\ (status[n] = "FAILED" => n_submit[n] = 2 /\ exit_calls[n] = 1)
        /\ (thread_status[n] = "READY" => n_submit[n] < 2)
        /\ (thread_status[n] = "DONE"
              => status[n] = "FAILED" /\ n_submit[n] = 2 /\ exit_calls[n] = 1)

C2_Witness ==
    \E n \in job_list :
      /\ C2_Case(n)
      /\ thread_status[n] = "DONE" /\ status[n] = "FAILED"
      /\ n_submit[n] = 2 /\ exit_calls[n] = 1 /\ pc[n] = "none"

\* ---------------------------------------------------------------- C3
\* C3: after a poll loop that ended with DONE, a success callback that returns
\* true makes the queue status SUCCESS and one that returns false makes it
\* EXIT; the terminal handling of an EXIT with submit_attempt >= max_submit
\* makes the node FAILED and invokes the failure callback, which is then
\* invoked exactly once in the node's life.
C3_DoneCallback ==
    /\ [][\A n \in job_list :
            pc[n] = "done_set" /\ pc'[n] = "refresh" =>
              /\ callback_status[n] = "true" => status'[n] = "SUCCESS"
              /\ callback_status[n] = "false" => status'[n] = "EXIT"]_vars
    /\ [][\A n \in job_list :
            /\ pc[n] = "refresh" /\ pc'[n] # "refresh"
            /\ status[n] = "EXIT" /\ submit_attempt[n] >= max_submit
            => /\ status'[n] = "FAILED"
               /\ pc'[n] = "exit_cb"
               /\ exit_calls[n] = 0 /\ exit_calls'[n] = 1]_vars
    /\ [](\A n \in job_list : exit_calls[n] <= 1)
    /\ [](\A n \in job_list :
            pc[n] = "refresh" /\ cur[n] = "DONE"
              => status[n] \in {"SUCCESS", "EXIT", "FAILED"})

\* the success callback returned false on the last attempt allowed, and the
\* failure callback has been invoked
C3_Witness ==
    \E n \in job_list :
      /\ pc[n] = "exit_cb" /\ cur[n] = "EXIT" /\ done_calls[n] >= 1
      /\ status[n] = "FAILED" /\ exit_calls[n] = 1
      /\ submit_attempt[n] >= max_submit

\* ---------------------------------------------------------------- C4
\* C4 as claimed: a node on which stop() was called while its worker status
\* was RUNNING (so that it became STOPPING) ends, when its monitor finishes
\* without a callback raising, with worker status DONE and queue status
\* IS_KILLED or FAILED.
C4_StoppedNeverSuccess ==
    [][\A n \in job_list :
          /\ thread_status[n] = "STOPPING"
          /\ pc[n] = "refresh" /\ pc'[n] \in {"none", "return"}
          => /\ thread_status'[n] = "DONE"
             /\ status'[n] \in {"IS_KILLED", "FAILED"}]_vars

\* ---------------------------------------------------------------- C5
\* C5: stop() on a node whose worker status is READY takes the READY branch,
\* which sets worker status DONE and queue status FAILED before stop()
\* returns; no step of stop() submits, polls or kills (the driver counters,
\* the backend job and the monitor's position stay as they are); and when
\* stop() returns from the READY branch with no monitor thread alive the node
\* is DONE and FAILED.
C5_StopOnReady ==
    /\ [][stop_pc = "check_ready" /\ stop_pc' # stop_pc
            /\ thread_status[stop_node] = "READY"
          => stop_pc' = "set_done"]_vars
    /\ [][stop_pc = "set_done" /\ stop_pc' # stop_pc
          => thread_status'[stop_node] = "DONE" /\ stop_pc' = "set_failed"]_vars
    /\ [][stop_pc = "set_failed" /\ stop_pc' # stop_pc
          => status'[stop_node] = "FAILED" /\ stop_pc' = "assert"]_vars
    /\ [][stop_pc' # stop_pc
          => UNCHANGED <<n_submit, n_kill, submit_attempt, has_job,
                         tried_killing, pc, cur>>]_vars
    /\ [](stop_pc = "assert" /\ stop_saw = "READY" /\ pc[stop_node] = "none"
            => thread_status[stop_node] = "DONE" /\ status[stop_node] = "FAILED")

\* stop() is about to return from the READY branch on a node that was reset
\* to READY after a retry-eligible EXIT
C5_Witness ==
    /\ stop_pc = "assert" /\ stop_saw = "READY"
    /\ thread_status[stop_node] = "DONE" /\ status[stop_node] = "FAILED"
    /\ n_submit[stop_node] = 1 /\ pc[stop_node] = "none"

\* ---------------------------------------------------------------- C7
\* C7 as claimed: a node that has ended (worker status DONE, no monitor thread)
\* with queue status FAILED has had its failure callback invoked exactly once,
\* and one that has ended with SUCCESS or IS_KILLED never.
C7_FailureCallbackOnce ==
    \A n \in job_list :
      thread_status[n] = "DONE" /\ pc[n] = "none" =>
        /\ status[n] = "FAILED" => exit_calls[n] = 1
        /\ status[n] \in {"SUCCESS", "IS_KILLED"} => exit_calls[n] = 0

\* ---------------------------------------------------------------- C8
\* at least M > 0 time units have passed since the monitor recorded RUNNING
\* in this attempt
C8_Elapsed(n) ==
    /\ max_runtime # None /\ max_runtime > 0
    /\ start_time[n] # None
    /\ now - start_time[n] >= max_runtime

\* C8 as claimed: in any attempt with the backend reporting RUNNING, a poll
\* iteration whose kill policy is evaluated when M time units have elapsed
\* since RUNNING was first observed attempts a kill, and the kill attempt is
\* followed by timed_out becoming true.
C8_TimeoutKill ==
    /\ [][\A n \in job_list :
            /\ pc[n] = "poll" /\ pc'[n] # "poll"
            /\ cur[n] = "RUNNING" /\ status'[n] = "RUNNING"
            /\ C8_Elapsed(n)
            => pc'[n] = "kill"]_vars
    /\ [][\A n \in job_list :
            pc[n] = "kill" /\ pc'[n] # "kill" /\ C8_Elapsed(n)
            => tried_killing'[n] >= 1 /\ pc'[n] = "set_timed_out"]_vars
    /\ [][\A n \in job_list :
            pc[n] = "set_timed_out" /\ pc'[n] # "set_timed_out" => timed_out'[n]]_vars

\* ---------------------------------------------------------------- C9
\* C9: a step of the monitor, after the submission and before the end of the
\* poll loop, that leaves the queue status UNKNOWN keeps the node running
\* (is_running) and the monitor in the poll loop: no callback is invoked, no
\* end time is recorded and the worker status is not changed; and a monitor
\* whose last observed status is UNKNOWN is inside the poll loop.
C9_UnknownKeepsPolling ==
    /\ [][\A n \in job_list :
            /\ MonitorStep(n)
            /\ pc[n] \in LoopPcs \cup {"poll0"}
            /\ status'[n] = "UNKNOWN"
            => /\ is_running(status'[n])
               /\ pc'[n] \in LoopPcs
               /\ done_calls'[n] = done_calls[n]
               /\ exit_calls'[n] = exit_calls[n]
               /\ end_time'[n] = end_time[n]
               /\ thread_status'[n] = thread_status[n]]_vars
    /\ [](\A n \in job_list :
            pc[n] # "none" /\ cur[n] = "UNKNOWN" => pc[n] \in LoopPcs)

\* the backend answered UNKNOWN again after a kill was attempted, and the
\* monitor is back at the top of the loop
C9_Witness ==
    \E n \in job_list :
      /\ pc[n] = "iter" /\ cur[n] = "UNKNOWN" /\ status[n] = "UNKNOWN"
      /\ tried_killing[n] = 1 /\ end_time[n] = None /\ done_calls[n] = 0

\* --------------------------------------------------------------- C10
\* C10: submit_attempt is 0 for a fresh node and always equals the number of
\* submit calls made so far; each submit call adds exactly 1, whether the
\* submission is accepted or not.
C10_SubmitAttempt ==
    /\ [](\A n \in job_list : submit_attempt[n] = n_submit[n])
    /\ [][\A n \in job_list :
            pc[n] = "submit" /\ pc'[n] # "submit"
            => submit_attempt'[n] = submit_attempt[n] + 1]_vars
    /\ [][\A n \in job_list :
            submit_attempt'[n] # submit_attempt[n] => pc[n] = "submit"]_vars

\* the second submission of a node was not accepted, and was counted
C10_Witness ==
    \E n \in job_list :
      pc[n] = "submit_failed" /\ submit_attempt[n] = 2 /\ ~has_job[n]

\* ---------------------------------------------------------------- C6
\* the nodes whose queue status is PENDING, SUBMITTED or RUNNING
SubmittedNodes == {n \in job_list : status[n] \in {"PENDING", "SUBMITTED", "RUNNING"}}

\* C6 as claimed: in every reachable state of a queue with cap max_running, at
\* most max_running nodes have queue status PENDING, SUBMITTED or RUNNING.
C6_AtMostCap == Cardinality(SubmittedNodes) <= max_running

\* a retried node is running in its second attempt and fills the cap while
\* another node waits for a slot
C6_Witness ==
    /\ Cardinality(SubmittedNodes) = max_running
    /\ \E n, m \in job_list :
         /\ n # m
         /\ status[n] \in {"PENDING", "RUNNING"} /\ submit_attempt[n] = 2
         /\ thread_status[m] = "READY" /\ status[m] = "WAITING"

\* --------------------------------------------------------------- C11
\* the nodes whose monitor is executing the success callback
InDoneCallback == {n \in job_list : pc[n] = "done_cb"}

\* the nodes whose monitor is executing the failure callback
InExitCallback == {n \in job_list : pc[n] = "exit_cb"}

\* C11 as claimed: at any time the number of callbacks executing across all
\* nodes, success callbacks and failure callbacks together, is at most the
\* capacity of the callback limiter.
C11_CallbacksBounded ==
    Cardinality(InDoneCallback) + Cardinality(InExitCallback) <= PoolSize

\* --------------------------------------------------------------- C12
\* the nodes whose monitor is inside `with pool_sema`
InPoolSema == {n \in job_list : pc[n] \in {"done_cb", "done_set"}}

\* C12: at any time at most PoolSize success callbacks are executing, and the
\* slots taken from the limiter are exactly those of the monitors inside
\* `with pool_sema`: a slot is given back when the callback finishes, also
\* when it raises and the monitor thread ends with it.
C12_SuccessCallbacksBounded ==
    /\ Cardinality(InDoneCallback) <= PoolSize
    /\ pool_sema = Cardinality(InPoolSema)
    /\ pool_sema <= PoolSize

\* the success callback of one node raised and ended its monitor, and the
\* slot it held has been taken by the monitor of another node
C12_Witness ==
    \E n, m \in job_list :
      /\ n # m
      /\ pc[m] = "none" /\ status[m] = "DONE" /\ done_calls[m] = 1
      /\ thread_status[m] = "RUNNING"
      /\ pc[n] = "done_cb" /\ pool_sema = PoolSize

\* --------------------------------------------------------------- C13
\* C13: run() starts a monitor thread for a node only when no monitor thread
\* of that node is alive, so a node never has two live monitor threads.
C13_OneMonitor ==
    [][run_pc = "start" /\ run_pc' # "start" => pc[run_node] = "none"]_vars

\* run() has been called on a node that was reset to READY while the monitor
\* thread that reset it is still alive: run() waits in wait_for()
C13_Witness ==
    /\ run_pc = "run" /\ pc[run_node] = "return"
    /\ thread_status[run_node] = "READY"

\* --------------------------------------------------------------- C14
\* C14 as claimed: whenever stop() evaluates its final assertion and returns,
\* the worker status of the node is DONE, STOPPING or FAILED.
C14_StopAssertion ==
    [][stop_pc = "assert" /\ stop_pc' # "assert" => stop_assertion(stop_node)]_vars

\* --------------------------------------------------------------- C15
\* C15 as claimed, the part a finite run decides: a worker status of STOPPING
\* is never followed by READY or RUNNING (it stays STOPPING until it becomes
\* DONE).
C15_StoppingNotRestarted ==
    [][\A n \in job_list :
          thread_status[n] = "STOPPING"
          => thread_status'[n] \notin {"READY", "RUNNING"}]_vars

C17_FailedSubmitNeverSuccess ==
    \A n \in job_list :
      n_submit[n] >= 1 /\ ~has_job[n] /\ pc[n] # "submit" => status[n] # "SUCCESS"

\* --------------------------------------------------------------- C18
\* C18: a ValueError of the success callback stays inside the monitor and the
\* queue status becomes FAILED; the terminal handling of a FAILED node invokes
\* the failure callback and does not change the worker status (no reset to
\* READY, whatever submit_attempt is); when the failure callback has run the
\* monitor ends with worker status DONE, or with the worker status unchanged
\* if the failure callback raised; the failure callback is invoked at most
\* once, and a node whose failure callback was invoked is never READY again.
C18_ValueErrorFails ==
    /\ [][\A n \in job_list :
            pc[n] = "done_set" /\ callback_status[n] = "ValueError" /\ MonitorStep(n)
            => status'[n] = "FAILED" /\ pc'[n] = "refresh"]_vars
    /\ [][\A n \in job_list :
            pc[n] = "refresh" /\ status[n] = "FAILED" /\ MonitorStep(n)
            => /\ pc'[n] = "exit_cb"
               /\ exit_calls'[n] = exit_calls[n] + 1
               /\ status'[n] = "FAILED"
               /\ thread_status'[n] = thread_status[n]]_vars
    /\ [][\A n \in job_list :
            pc[n] = "exit_cb" /\ MonitorStep(n)
            => /\ pc'[n] = "none"
               /\ thread_status'[n] \in {"DONE", thread_status[n]}
               /\ exit_calls'[n] = exit_calls[n]]_vars
    /\ [](\A n \in job_list :
            /\ exit_calls[n] <= 1
            /\ exit_calls[n] = 1 => thread_status[n] # "READY")

\* the success callback raised ValueError in the first of two allowed
\* attempts: the node is FAILED and DONE after one failure callback
C18_Witness ==
    \E n \in job_list :
      /\ max_submit = 2 /\ submit_attempt[n] = 1
      /\ done_calls[n] = 1 /\ exit_calls[n] = 1
      /\ status[n] = "FAILED" /\ thread_status[n] = "DONE" /\ pc[n] = "none"
      /\ ~stop_called[n]

\* --------------------------------------------------------------- C19
\* C19: submit_attempt never exceeds max_submit, and the terminal handling of
\* an EXIT with submit_attempt < max_submit sets the worker status READY,
\* leaves the queue status EXIT, invokes no failure callback and returns.
C19_RetryBounded ==
    /\ [](\A n \in job_list : submit_attempt[n] <= max_submit)
    /\ [][\A n \in job_list :
            /\ pc[n] = "refresh" /\ MonitorStep(n)
            /\ status[n] = "EXIT" /\ submit_attempt[n] < max_submit
            => /\ thread_status'[n] = "READY"
               /\ status'[n] = "EXIT"
               /\ exit_calls'[n] = exit_calls[n]
               /\ pc'[n] = "return"]_vars

\* a node reset to READY after its first attempt ended in EXIT
C19_Witness ==
    \E n \in job_list :
      /\ thread_status[n] = "READY" /\ status[n] = "EXIT" /\ pc[n] = "none"
      /\ submit_attempt[n] = 1 /\ max_submit = 2 /\ exit_calls[n] = 0

\* --------------------------------------------------------------- C20
\* every node has a terminal worker status and no live monitor thread
AllTerminal ==
    \A n \in job_list : thread_status[n] \in {"DONE", "FAILED"} /\ pc[n] = "none"

\* C20: under fair scheduling, a backend that ends every submission and
\* callbacks that return, every node of the queue eventually has worker status
\* DONE or FAILED, and from then on no node changes state.
C20_QueueTerminates ==
    /\ <>AllTerminal
    /\ [][AllTerminal
           => UNCHANGED <<status, thread_status, submit_attempt, pc, n_submit,
                          done_calls, exit_calls>>]_vars

\* the queue has come to rest after a node was submitted a second time
C20_Witness ==
    /\ AllTerminal
    /\ \E n \in job_list : submit_attempt[n] = 2 /\ status[n] = "FAILED"
    /\ \E n \in job_list : status[n] = "SUCCESS"

\* --------------------------------------------------------------- C21
\* C21: is_running(s) is true exactly for PENDING, SUBMITTED, RUNNING and
\* UNKNOWN and false for WAITING, DONE, EXIT, SUCCESS, FAILED and IS_KILLED;
\* with no status given it is the same test on the node's queue status; and
\* the poll loop, which applies it to the status it last read, is running for
\* exactly these statuses.
C21_IsRunning ==
    /\ \A s \in JobStatusType :
          is_running(s) <=> s \in {"PENDING", "SUBMITTED", "RUNNING", "UNKNOWN"}
    /\ \A s \in {"WAITING", "DONE", "EXIT", "SUCCESS", "FAILED", "IS_KILLED"} :
          ~is_running(s)
    /\ \A n \in job_list :
          /\ node_is_running(n)
               <=> status[n] \in {"PENDING", "SUBMITTED", "RUNNING", "UNKNOWN"}
          /\ pc[n] \in {"iter", "poll", "kill", "set_timed_out"}
               => cur[n] \in {"PENDING", "SUBMITTED", "RUNNING", "UNKNOWN"}
          /\ pc[n] = "end"
               => cur[n] \in {"WAITING", "DONE", "EXIT", "SUCCESS", "FAILED",
                              "IS_KILLED"}

\* a resubmitted job is pending in the poll loop, and is_running() says so
C21_Witness ==
    \E n \in job_list :
      /\ pc[n] = "iter" /\ cur[n] = "PENDING" /\ status[n] = "PENDING"
      /\ submit_attempt[n] = 2 /\ node_is_running(n)

\* --------------------------------------------------------------- C22
\* C22 as claimed: in every attempt, first or resubmission, runtime is 0 while
\* no start time is recorded, the current time minus the start time of the
\* attempt while the attempt is in its poll loop after RUNNING was observed,
\* and the end time of the attempt minus its start time once the loop has
\* been left and the end time recorded.
C22_Runtime ==
    \A n \in job_list :
      /\ start_time[n] = None => runtime(n) = 0
      /\ start_time[n] # None /\ pc[n] \in LoopPcs
           => runtime(n) = now - start_time[n]
      /\ start_time[n] # None /\ pc[n] \notin LoopPcs \cup {"end"}
           => /\ end_time[n] # None /\ end_time[n] >= start_time[n]
              /\ runtime(n) = end_time[n] - start_time[n]

\* ------------------------------------------------------------ the drivers

\* one node on a queue with a driver of any kind, whose backend commands
\* answer in text; nobody stops the node and no maximum runtime is set
DriverInit ==
    /\ InitNodes({1})
    /\ max_running = 1
    /\ max_submit \in 1..MaxSubmit
    /\ max_runtime = None
    /\ backend = [n \in {1} |-> "text"]
    /\ driver \in DriverKinds

DriverNext ==
    \/ \E n \in AllNodes : LiveMonitor(n)
    \/ Run

DriverSpec == DriverInit /\ [][DriverNext]_vars

\* --------------------------------------------------------------- C23
\* an output of the submission command that is not the success output of the
\* driver for any job id
Malformed(kind, out) ==
    out \notin {submit_success_output(kind, j) : j \in JobIds}

\* C23: for every batch driver, a submission whose command prints malformed
\* output returns DRIVER_FAIL as a normal result: the monitor goes on to the
\* test of the submit status instead of dying, and the node holds no backend
\* job id.
C23_MalformedSubmitFails ==
    /\ \A k \in BatchKinds : driver_submit(k, <<"invalid">>) = "DRIVER_FAIL"
    /\ [][\A n \in job_list :
            /\ pc[n] = "submit" /\ pc'[n] # "submit"
            /\ driver \in BatchKinds
            /\ Malformed(driver, submit_out'[n])
            => /\ driver_submit(driver, submit_out'[n]) = "DRIVER_FAIL"
               /\ pc'[n] = "submit_failed"
               /\ ~has_job'[n]]_vars

\* the submission command of a TORQUE driver printed "invalid" for a node
\* that had a job before, and the node holds no job id
C23_Witness ==
    \E n \in job_list :
      /\ driver = "TORQUE" /\ submit_out[n] = <<"invalid">>
      /\ pc[n] = "submit_failed" /\ ~has_job[n] /\ submit_attempt[n] = 2

\* --------------------------------------------------------------- C24
\* C24: for every kind of driver, once the first submission of a node was
\* accepted, a poll whose status command reports the job as completed sets
\* the queue status DONE, and the poll loop ends there with DONE: the monitor
\* does not start another iteration.
C24_CompletedIsDone ==
    /\ [][\A n \in job_list :
            /\ pc[n] \in {"poll0", "poll"} /\ pc'[n] # pc[n]
            /\ has_job[n] /\ submit_attempt[n] = 1
            /\ status_out'[n] \in status_output(driver, "DONE")
            => status'[n] = "DONE"]_vars
    /\ [](\A n \in job_list :
            /\ has_job[n] /\ submit_attempt[n] = 1
            /\ status_out[n] \in status_output(driver, "DONE")
            => /\ pc[n] \notin {"iter", "poll", "kill", "set_timed_out"}
               /\ pc[n] \in {"next", "end"}
                    => status[n] = "DONE" /\ ~is_running(status[n])
               /\ pc[n] = "end" => cur[n] = "DONE")

\* a TORQUE job was reported as completed (job_state = C) without having
\* been seen running, and the poll loop has ended with DONE
C24_Witness ==
    \E n \in job_list :
      /\ driver = "TORQUE" /\ status_out[n] = "job_state = C"
      /\ submit_attempt[n] = 1 /\ has_job[n]
      /\ pc[n] = "end" /\ status[n] = "DONE" /\ start_time[n] = None

\* ------------------------------------------------- a driver out of contract

\* one node whose driver does not normalize what it reports: a poll can
\* answer any queue status
RawInit ==
    /\ InitNodes({1})
    /\ max_running = 1
    /\ max_submit \in 1..MaxSubmit
    /\ max_runtime = None
    /\ backend = [n \in {1} |-> "raw"]
    /\ driver = "SLURM"

RawMonitor(n) ==
    \/ \E ok \in BOOLEAN : Submit(n, ok)
    \/ SubmitFailed(n)
    \/ \E r \in JobStatusType : Poll0(n, r)
    \/ Iter(n)
    \/ \E r \in JobStatusType : Poll(n, r)
    \/ LoopNext(n)
    \/ Kill(n)
    \/ EndTime(n)
    \/ Lock(n)
    \/ Sema(n)
    \/ \E out \in {"true", "false", "ValueError", "raise"} : DoneCallback(n, out)
    \/ DoneSet(n)
    \/ Refresh(n)
    \/ Return(n)
    \/ \E raised \in BOOLEAN : ExitCallback(n, raised)

RawNext ==
    \/ \E n \in AllNodes : RawMonitor(n)
    \/ Run
    \/ Stop

RawSpec == RawInit /\ [][RawNext]_vars

\* --------------------------------------------------------------- C25
\* C25: when the terminal handling, after the success callback if there was
\* one, finds a queue status other than SUCCESS, EXIT, IS_KILLED and FAILED,
\* the monitor sets the worker status FAILED and ends there with no failure
\* callback; and a worker status FAILED stays: it is never set to DONE, and
\* no failure callback follows.
C25_UnexpectedStatus ==
    /\ [][\A n \in job_list :
            /\ pc[n] = "refresh" /\ pc'[n] # "refresh"
            /\ status[n] \notin {"SUCCESS", "EXIT", "IS_KILLED", "FAILED"}
            => /\ thread_status'[n] = "FAILED"
               /\ pc'[n] = "none" /\ mutex'[n] = "free"
               /\ exit_calls'[n] = exit_calls[n]
               /\ status'[n] = status[n]]_vars
    /\ [][\A n \in job_list :
            thread_status[n] = "FAILED"
            => /\ thread_status'[n] = "FAILED"
               /\ exit_calls'[n] = exit_calls[n]
               /\ pc'[n] = "none"]_vars

\* the backend reported WAITING for a submitted job; the monitor has left
\* the loop and ended with worker status FAILED, and stop() was called later
C25_Witness ==
    \E n \in job_list :
      /\ thread_status[n] = "FAILED" /\ status[n] = "WAITING"
      /\ pc[n] = "none" /\ exit_calls[n] = 0 /\ done_calls[n] = 0
      /\ stop_called[n] /\ stop_pc = "idle"

\* --------------------------------------------------------------- C26
\* C26: with a driver whose poll answers only normalized statuses, in every
\* interleaving of run(), the monitor and stop() the terminal handling sees
\* the queue status SUCCESS, EXIT, IS_KILLED or FAILED, and the worker status
\* is never FAILED.
C26_NoWorkerFailure ==
    \A n \in job_list :
      /\ thread_status[n] # "FAILED"
      /\ pc[n] = "refresh"
           => status[n] \in {"SUCCESS", "EXIT", "IS_KILLED", "FAILED"}

\* the terminal handling of a resubmitted node sees FAILED, set by a stop()
\* that ran into the start of the second attempt
C26_Witness ==
    \E n \in job_list :
      /\ pc[n] = "refresh" /\ status[n] = "FAILED" /\ stop_called[n]
      /\ submit_attempt[n] = 2 /\ done_calls[n] = 0

\* --------------------------------------------------------------- C27
\* C27: in each poll iteration, after the re-poll, a kill is issued if and
\* only if the worker status is STOPPING or a maximum runtime is configured
\* and runtime has reached it; kills are issued nowhere else, one at a time:
\* none during the submission, the first poll or the top of an iteration.
C27_KillPolicy ==
    /\ [][\A n \in job_list :
            pc[n] = "poll" /\ pc'[n] # "poll"
            => /\ pc'[n] \in {"kill", "next"}
               /\ pc'[n] = "kill"
                    <=> \/ thread_status[n] = "STOPPING"
                        \/ max_runtime # None /\ runtime(n) >= max_runtime]_vars
    /\ [][\A n \in job_list :
            /\ pc'[n] = "kill" /\ pc[n] # "kill" => pc[n] = "poll"
            /\ n_kill'[n] # n_kill[n]
                 => pc[n] = "kill" /\ n_kill'[n] = n_kill[n] + 1
            /\ pc[n] = "kill" /\ pc'[n] # "kill"
                 => n_kill'[n] = n_kill[n] + 1]_vars

\* a job that was killed once for its runtime and is still reported running
\* is due for its second kill, with nobody having stopped the node
C27_Witness ==
    \E n \in job_list :
      /\ pc[n] = "kill" /\ thread_status[n] = "RUNNING"
      /\ max_runtime = MaxRuntime /\ runtime(n) >= max_runtime
      /\ n_kill[n] = 1 /\ status[n] = "RUNNING" /\ ~stop_called[n]

\* --------------------------------------------------------------- C28
\* C28: a kill attempt calls Driver.kill once and adds exactly 1 to the kill
\* counter of the node, and leaves the queue status, the worker status and
\* submit_attempt as they are; between two polls no step of the monitor
\* changes the queue status.
C28_KillStep ==
    /\ [][\A n \in job_list :
            pc[n] = "kill" /\ pc'[n] # "kill"
            => /\ n_kill'[n] = n_kill[n] + 1
               /\ tried_killing'[n] = tried_killing[n] + 1
               /\ status'[n] = status[n]
               /\ thread_status'[n] = thread_status[n]
               /\ submit_attempt'[n] = submit_attempt[n]]_vars
    /\ [][\A n \in job_list :
            MonitorStep(n) /\ pc[n] \in {"kill", "set_timed_out", "next", "iter"}
            => status'[n] = status[n]]_vars
    /\ [](\A n \in job_list : tried_killing[n] = n_kill[n])

\* a stopped node was killed once: the counter is 1 and the job is still
\* reported running, the monitor being at the end of the iteration
C28_Witness ==
    \E n \in job_list :
      /\ pc[n] = "next" /\ n_kill[n] = 1 /\ tried_killing[n] = 1
      /\ status[n] = "RUNNING" /\ thread_status[n] = "STOPPING"

\* --------------------------------------------------------------- C29
\* C29 as claimed: for every configured maximum runtime, 0 included, a kill
\* issued when runtime has reached the maximum is followed in the same
\* iteration by the timeout callback and by timed_out being set: a monitor
\* never reaches the end of an iteration after such a kill with the flag
\* unset.
C29_TimeoutFlag ==
    /\ [][\A n \in job_list :
            /\ pc[n] = "kill" /\ pc'[n] # "kill"
            /\ max_runtime # None /\ runtime(n) >= max_runtime
            => /\ timeout_calls'[n] = timeout_calls[n] + 1
               /\ pc'[n] = "set_timed_out"]_vars
    /\ [][\A n \in job_list :
            pc[n] = "set_timed_out" /\ pc'[n] # "set_timed_out"
            => timed_out'[n] /\ pc'[n] = "next"]_vars

\* --------------------------------------------------------------- C30
\* C30 as claimed: in every interleaving of stop() with the loop body, a
\* monitor that leaves its poll loop with the worker status STOPPING, set by
\* stop() while the monitor was in the loop, has issued a kill: the loop is
\* not left from the end of an iteration by a stopped node that was never
\* killed.
C30_StopKills ==
    [][\A n \in job_list :
          /\ pc[n] \in LoopPcs /\ pc'[n] = "end"
          /\ thread_status[n] = "STOPPING"
          => n_kill[n] >= 1 /\ cur'[n] = status[n]]_vars

\* --------------------------------------------------------------- C31
\* C31 as claimed: when run(), having waited for the previous monitor thread,
\* makes its test on a node whose worker status is STOPPING or for which a
\* stop() was requested and has returned, it sets the worker status DONE and
\* returns: no monitor thread is started and no submission follows.
C31_StoppedNotStarted ==
    [][/\ run_pc = "run" /\ run_pc' # "run"
       /\ \/ thread_status[run_node] = "STOPPING"
          \/ stop_called[run_node] /\ stop_pc = "idle"
       => /\ thread_status'[run_node] = "DONE"
          /\ run_pc' = "idle"
          /\ pc'[run_node] = "none"]_vars

\* --------------------------------------------------------------- C32
\* the positions of the monitor before its terminal handling: the submission,
\* the polls, the sleep, the kill and the tests between them
UnlockedPcs ==
    {"none", "submit", "submit_failed", "poll0", "iter", "poll", "kill",
     "set_timed_out", "next", "end", "lock"}

\* C32: the monitor does not hold the mutex of its node while it submits,
\* polls, sleeps or kills: it holds it only inside the terminal handling (the
\* flag timed_out is set and the mutex released in one go), and stop() holds
\* it from its first test to its return; so a stop() that waits for the mutex
\* while the monitor is in its loop finds it free.
C32_NarrowLock ==
    \A n \in job_list :
      /\ pc[n] \in UnlockedPcs => mutex[n] # "monitor"
      /\ mutex[n] = "monitor"
           => pc[n] \in {"sema", "done_cb", "done_set", "refresh", "return",
                         "exit_cb"}
      /\ mutex[n] = "stop"
           <=> /\ stop_node = n
               /\ stop_pc \in {"check_ready", "set_done", "set_failed", "assert"}
      /\ stop_pc = "acquire" /\ stop_node = n /\ pc[n] \in UnlockedPcs
           => mutex[n] = "free"

\* stop() waits for the mutex of a node whose monitor is about to poll, in an
\* iteration after the one that set timed_out, and the mutex is free
C32_Witness ==
    \E n \in job_list :
      /\ pc[n] = "poll" /\ timed_out[n]
      /\ stop_pc = "acquire" /\ stop_node = n /\ mutex[n] = "free"

\* --------------------------------------------------------------- C33
\* C33 as claimed: once stop() has been called on a node that has been
\* submitted, and has returned, the node is not submitted again: neither the
\* count of driver submits nor submit_attempt increases, whatever the backend
\* reports and however many dispatch passes follow.
C33_NoSubmitAfterStop ==
    [][\A n \in job_list :
          stop_called[n] /\ stop_pc = "idle" /\ n_submit[n] >= 1
          => /\ n_submit'[n] = n_submit[n]
             /\ submit_attempt'[n] = submit_attempt[n]]_vars

\* --------------------------------------------------------------- C34
\* C34 as claimed: in every reachable state, during and after a resubmission
\* too, runtime is not negative: a recorded end time is not earlier than the
\* recorded start time it is compared with.
C34_RuntimeNotNegative ==
    \A n \in job_list :
      /\ runtime(n) >= 0
      /\ start_time[n] # None /\ end_time[n] # None
           => end_time[n] >= start_time[n]

\* --------------------------------------------------------------- C35
\* C35 as claimed: a node with no live monitor thread has a worker status
\* other than RUNNING and STOPPING: however the monitor thread ends, by its
\* terminal handling, by the reset for a retry, by the fatal error or by a
\* callback that raises, the worker status is READY, DONE or FAILED.
C35_NoThreadNotRunning ==
    \A n \in job_list :
      pc[n] = "none" => thread_status[n] \in {"READY", "DONE", "FAILED"}

\* --------------------------------------------------------------- C36
\* C36: a node with worker status READY has queue status WAITING and has
\* never been submitted, or has queue status EXIT after at least one and
\* fewer than max_submit submissions; READY goes with no other queue status.
C36_ReadyStatus ==
    \A n \in job_list :
      thread_status[n] = "READY"
      => \/ status[n] = "WAITING" /\ submit_attempt[n] = 0
         \/ /\ status[n] = "EXIT"
            /\ submit_attempt[n] >= 1 /\ submit_attempt[n] < max_submit

\* a node reset to READY after a failed first attempt has been picked by the
\* dispatch pass: run() waits for its monitor thread, which is about to end
C36_Witness ==
    \E n \in job_list :
      /\ thread_status[n] = "READY" /\ status[n] = "EXIT"
      /\ submit_attempt[n] = 1 /\ max_submit = 2
      /\ pc[n] = "return" /\ run_pc = "run" /\ run_node = n

\* --------------------------------------------------------------- C37
\* C37: the queue status SUCCESS is absorbing: no step changes the queue
\* status of a node that is SUCCESS, submits it again or kills it; when its
\* monitor thread has ended the worker status is DONE, and from then on it
\* stays DONE.
C37_SuccessAbsorbing ==
    /\ [][\A n \in job_list :
            status[n] = "SUCCESS"
            => /\ status'[n] = "SUCCESS"
               /\ n_submit'[n] = n_submit[n]
               /\ submit_attempt'[n] = submit_attempt[n]
               /\ n_kill'[n] = n_kill[n]
               /\ thread_status[n] = "DONE" => thread_status'[n] = "DONE"]_vars
    /\ [](\A n \in job_list :
            status[n] = "SUCCESS"
            => /\ pc[n] \in {"refresh", "none"}
               /\ pc[n] = "none" => thread_status[n] = "DONE")

\* stop() has run to its assertion on a node that ended SUCCESS, after a
\* kill, and the node is still SUCCESS and DONE
C37_Witness ==
    \E n \in job_list :
      /\ status[n] = "SUCCESS" /\ thread_status[n] = "DONE" /\ pc[n] = "none"
      /\ stop_pc = "assert" /\ stop_node = n /\ stop_saw = "other"
      /\ n_kill[n] >= 1

\* --------------------------------------------------------------- C38
\* C38: timed_out is false for a fresh node and as long as no kill was
\* attempted or no maximum runtime is configured; it becomes true only in a
\* poll iteration, with a maximum runtime configured and reached by runtime;
\* and once true it stays true, through every resubmission.
C38_TimedOut ==
    /\ [](\A n \in job_list :
            timed_out[n]
            => /\ n_kill[n] >= 1 /\ tried_killing[n] >= 1
               /\ max_runtime # None)
    /\ [][\A n \in job_list :
            /\ timed_out[n] => timed_out'[n]
            /\ ~timed_out[n] /\ timed_out'[n]
                 => /\ pc[n] = "set_timed_out" /\ pc'[n] = "next"
                    /\ max_runtime # None /\ runtime(n) >= max_runtime]_vars

\* a node that timed out in its first attempt has been submitted again, and
\* its flag is still set
C38_Witness ==
    \E n \in job_list :
      /\ timed_out[n] /\ submit_attempt[n] = 2 /\ pc[n] = "poll0"
      /\ start_time[n] = None

\* --------------------------------------------------------------- C39
\* the worker statuses of a finished node, on which stop() has nothing to do
FinishedThreadStatus == {"DONE", "STOPPING", "FAILED"}

\* a step that changes no worker status, no queue status, and makes no
\* driver call and no callback
C39_NothingChanged ==
    /\ thread_status' = thread_status
    /\ status' = status
    /\ submit_attempt' = submit_attempt
    /\ n_submit' = n_submit
    /\ n_kill' = n_kill
    /\ tried_killing' = tried_killing
    /\ done_calls' = done_calls
    /\ exit_calls' = exit_calls
    /\ timeout_calls' = timeout_calls

\* C39: stop() is a no-op on a finished node. When stop(), holding the mutex,
\* finds the worker status DONE, STOPPING or FAILED at its first test, that
\* step changes no worker status and no queue status, and makes no driver
\* call and no callback, and goes on to the second test; while stop() is at
\* its second test a worker status that is not READY does not become READY,
\* so that the second test goes on to the assertion, changing nothing as
\* well; and the return of stop() changes nothing. A stop() that returned
\* with its assertion true left one of these three worker statuses, so a
\* second stop() on that state leaves it as the first one did.
C39_StopNoOp ==
    [][/\ stop_pc = "acquire" /\ stop_pc' # "acquire"
          /\ thread_status[stop_node] \in FinishedThreadStatus
          => stop_pc' = "check_ready" /\ C39_NothingChanged
       /\ stop_pc = "check_ready" /\ thread_status[stop_node] # "READY"
          => /\ thread_status'[stop_node] # "READY"
             /\ stop_pc' # "check_ready"
                => stop_pc' = "assert" /\ C39_NothingChanged
       /\ stop_pc = "assert" /\ stop_pc' # "assert"
          => stop_pc' = "idle" /\ C39_NothingChanged]_vars

\* a first stop() found the node READY and left it DONE and FAILED, and a
\* second stop() on the same node has reached its assertion without taking
\* a branch: the node is still DONE and FAILED
C39_Witness ==
    \E n \in job_list :
      /\ stop_pc = "assert" /\ stop_node = n /\ stop_saw = "other"
      /\ thread_status[n] = "DONE" /\ status[n] = "FAILED"
      /\ n_submit[n] = 0 /\ pc[n] = "none" /\ run_pc = "idle"

\* --------------------------------------------------------------- C40
\* C40: the start time of a node changes in two ways only: from unset to the
\* current time at the top of a poll iteration whose last observed status is
\* RUNNING, and back to unset when run() starts an attempt; so it is recorded
\* at most once per attempt. With a maximum runtime greater than 0 and the
\* start time unset, the kill policy holds only for a STOPPING node, a kill
\* is made only on a STOPPING node, no timeout callback is made and the
\* timed-out flag is not set.
C40_StartTime ==
    [][\A n \in job_list :
         /\ start_time'[n] # start_time[n]
            => \/ /\ start_time[n] = None /\ start_time'[n] = now
                  /\ pc[n] = "iter" /\ pc'[n] = "poll" /\ cur[n] = "RUNNING"
               \/ /\ start_time'[n] = None
                  /\ run_pc = "start" /\ run_node = n /\ run_pc' = "idle"
         /\ max_runtime # None /\ max_runtime > 0 /\ start_time[n] = None
            => /\ pc[n] = "poll" /\ pc'[n] = "kill"
                  => thread_status[n] = "STOPPING"
               /\ n_kill'[n] # n_kill[n] => thread_status[n] = "STOPPING"
               /\ timeout_calls'[n] = timeout_calls[n]
               /\ timed_out'[n] = timed_out[n]]_vars

\* the first attempt recorded a start time and timed out; run() cleared the
\* start time, and the second attempt has polled a job that is still PENDING
\* at a time past the maximum runtime without killing it again
C40_Witness ==
    \E n \in job_list :
      /\ max_runtime = MaxRuntime /\ now >= MaxRuntime
      /\ submit_attempt[n] = 2 /\ start_time[n] = None
      /\ pc[n] = "next" /\ status[n] = "PENDING" /\ cur[n] = "PENDING"
      /\ thread_status[n] = "RUNNING"
      /\ timed_out[n] /\ n_kill[n] = 1 /\ timeout_calls[n] = 1

====
